---- MODULE Spec2Model ----
(***************************************************************************)
(* Model of tco_cal.ipynb: the token cost calculator, its baseline call,   *)
(* the sensitivity sweep, the prompt-engineering scenario and the heatmap  *)
(* pivot, executed cell by cell in notebook order.                         *)
(*                                                                         *)
(* Numbers.  Python computes the costs in binary floating point; the model *)
(* computes them as exact rationals [n, d] in lowest terms (d > 0), so a   *)
(* statement proved here holds of the code up to floating-point rounding.  *)
(* Integer quantities (request counts, sweep values, days) stay integers   *)
(* and are embedded with R(_) where the code mixes them with floats.       *)
(*                                                                         *)
(* Inputs.  The configuration cell (pricing, base usage, days) and the     *)
(* three np.arange ranges are the notebook's inputs; Init and Step2Begin   *)
(* draw them from small sets that contain the notebook's own values and    *)
(* zero and negative ones.                                                 *)
(***************************************************************************)
EXTENDS Integers, Sequences, FiniteSets, TLC

VARIABLES
    prompt_cost_per_1k_tokens,      \* rational, dollars per 1000 prompt tokens
    completion_cost_per_1k_tokens,  \* rational, dollars per 1000 completion tokens
    base_daily_requests,            \* integer
    base_prompt_tokens,             \* integer
    base_completion_tokens,         \* integer
    days,                           \* integer
    baseline_cost,                  \* rational, Unset before Step 1
    baseline_prompt_cost,
    baseline_completion_cost,
    daily_requests_range,           \* sequences of integers (np.arange)
    prompt_tokens_range,
    completion_tokens_range,
    cost_matrix,                    \* sequence of <<r, p, c, total_cost>>
    total_cost,                     \* the sweep cell's global of that name
    idx,                            \* <<i, j, k>>: position of the three nested loops
    optimized_prompt_tokens,        \* rationals, Unset before Step 3
    optimized_completion_tokens,
    optimized_cost,
    optimized_prompt_cost,
    optimized_completion_cost,
    savings_line,                   \* <<savings in cents, percentage in 1/100 %>> as printed, <<>> if not printed
    pivot_data,                     \* set of heatmap cells <<completion, prompt, total cost>>
    error,                          \* "none" or the name of the uncaught Python exception
    pc                              \* the cell to run next

vars == <<prompt_cost_per_1k_tokens, completion_cost_per_1k_tokens,
          base_daily_requests, base_prompt_tokens, base_completion_tokens, days,
          baseline_cost, baseline_prompt_cost, baseline_completion_cost,
          daily_requests_range, prompt_tokens_range, completion_tokens_range,
          cost_matrix, total_cost, idx,
          optimized_prompt_tokens, optimized_completion_tokens,
          optimized_cost, optimized_prompt_cost, optimized_completion_cost,
          savings_line, pivot_data, error, pc>>

config == <<prompt_cost_per_1k_tokens, completion_cost_per_1k_tokens,
            base_daily_requests, base_prompt_tokens, base_completion_tokens, days>>

baseline == <<baseline_cost, baseline_prompt_cost, baseline_completion_cost>>

sweep == <<daily_requests_range, prompt_tokens_range, completion_tokens_range,
           cost_matrix, total_cost, idx>>

optimized == <<optimized_prompt_tokens, optimized_completion_tokens,
               optimized_cost, optimized_prompt_cost, optimized_completion_cost,
               savings_line>>

---------------------------------------------------------------------------
(* Bounds of the model *)

\* longest np.arange range drawn for the sweep
MaxRangeLen == 2

\* largest scaling factor k tried for linearity
MaxScale == 3

---------------------------------------------------------------------------
(* Exact rational arithmetic standing for Python's float operators *)

Abs(x) == IF x < 0 THEN -x ELSE x

RECURSIVE GCD(_, _)
GCD(a, b) == IF b = 0 THEN a ELSE GCD(b, a % b)

\* the rational n/d in lowest terms with a positive denominator (d # 0)
Rat(n, d) ==
    LET g == GCD(Abs(n), Abs(d))
        s == IF d < 0 THEN -1 ELSE 1
    IN  [n |-> (s * n) \div g, d |-> (s * d) \div g]

\* an integer as a rational
R(x) == [n |-> x, d |-> 1]

\* a name not yet assigned
Unset == [n |-> 0, d |-> 0]

Mul(x, y) == Rat(x.n * y.n, x.d * y.d)

Add(x, y) == Rat(x.n * y.d + y.n * x.d, x.d * y.d)

Sub(x, y) == Rat(x.n * y.d - y.n * x.d, x.d * y.d)

\* x / y for y # 0; Python raises ZeroDivisionError for y = 0 and the caller tests it
Div(x, y) == Rat(x.n * y.d, x.d * y.n)

IsZero(x) == x.n = 0

NonNeg(x) == x.n >= 0

\* format spec ".2f": x rounded to two decimals (ties to even), in hundredths
Round2(x) ==
    LET num == 100 * x.n
        q == num \div x.d
        r == num % x.d
    IN  IF 2 * r > x.d THEN q + 1
        ELSE IF 2 * r < x.d THEN q
        ELSE IF q % 2 = 0 THEN q ELSE q + 1

---------------------------------------------------------------------------
(* calculate_token_cost: reads the globals days and the two rates *)

\* mutant: the period length is left out of the token total
total_prompt_tokens_without_days(daily_requests, prompt_tokens) ==
    Mul(prompt_tokens, daily_requests)

total_prompt_tokens(daily_requests, prompt_tokens) ==
    Mul(Mul(prompt_tokens, daily_requests), R(days))

total_completion_tokens(daily_requests, completion_tokens) ==
    Mul(Mul(completion_tokens, daily_requests), R(days))

\* mutant: a flat one-dollar charge on top of the per-token price
prompt_cost_flat_fee(daily_requests, prompt_tokens) ==
    Add(Mul(Div(total_prompt_tokens(daily_requests, prompt_tokens), R(1000)),
            prompt_cost_per_1k_tokens), R(1))

prompt_cost(daily_requests, prompt_tokens) ==
    Mul(Div(total_prompt_tokens(daily_requests, prompt_tokens), R(1000)),
        prompt_cost_per_1k_tokens)

completion_cost(daily_requests, completion_tokens) ==
    Mul(Div(total_completion_tokens(daily_requests, completion_tokens), R(1000)),
        completion_cost_per_1k_tokens)

\* mutant: the total is the difference of the two costs
calculate_token_cost_difference(daily_requests, prompt_tokens, completion_tokens) ==
    LET pcost == prompt_cost(daily_requests, prompt_tokens)
        ccost == completion_cost(daily_requests, completion_tokens)
    IN  <<Sub(pcost, ccost), pcost, ccost>>

\* returns <<total_cost, prompt_cost, completion_cost>>; no argument is validated
calculate_token_cost(daily_requests, prompt_tokens, completion_tokens) ==
    LET pcost == prompt_cost(daily_requests, prompt_tokens)
        ccost == completion_cost(daily_requests, completion_tokens)
    IN  <<Add(pcost, ccost), pcost, ccost>>

---------------------------------------------------------------------------
(* Inputs *)

\* (prompt, completion) rates in cents per 1000 tokens; <<3, 6>> is the notebook's
Schedules == {<<3, 6>>, <<0, 6>>, <<-3, 6>>}

DaysSet == {-1, 0, 30}

DailyRequestsSet == {-1000, 0, 1000}

PromptTokensSet == {-300, 0, 300}

CompletionTokensSet == {-500, 0, 500}

\* first elements of the sweep ranges
DailyStarts == {-500, 500}

PromptStarts == {-100, 200}

CompletionStarts == {400}

\* steps of the three np.arange calls
DailyStep == 500

PromptStep == 100

CompletionStep == 100

\* np.arange(start, stop, step) for integers and step > 0
arange(start, stop, step) ==
    LET len == IF stop <= start THEN 0 ELSE (stop - start + step - 1) \div step
    IN  [n \in 1..len |-> start + (n - 1) * step]

\* the stop the notebook writes for a range of len elements: last element + 1
StopFor(start, len, step) == start + (len - 1) * step + 1

---------------------------------------------------------------------------
(* Cells *)

Init ==
    /\ \E s \in Schedules :
          /\ prompt_cost_per_1k_tokens = Rat(s[1], 100)
          /\ completion_cost_per_1k_tokens = Rat(s[2], 100)
    /\ base_daily_requests \in DailyRequestsSet
    /\ base_prompt_tokens \in PromptTokensSet
    /\ base_completion_tokens \in CompletionTokensSet
    /\ days \in DaysSet
    /\ baseline_cost = Unset
    /\ baseline_prompt_cost = Unset
    /\ baseline_completion_cost = Unset
    /\ daily_requests_range = <<>>
    /\ prompt_tokens_range = <<>>
    /\ completion_tokens_range = <<>>
    /\ cost_matrix = <<>>
    /\ total_cost = Unset
    /\ idx = <<1, 1, 1>>
    /\ optimized_prompt_tokens = Unset
    /\ optimized_completion_tokens = Unset
    /\ optimized_cost = Unset
    /\ optimized_prompt_cost = Unset
    /\ optimized_completion_cost = Unset
    /\ savings_line = <<>>
    /\ pivot_data = {}
    /\ error = "none"
    /\ pc = "step1"

\* Step 1: baseline cost calculation
Step1 ==
    /\ pc = "step1"
    /\ LET res == calculate_token_cost(R(base_daily_requests), R(base_prompt_tokens),
                                       R(base_completion_tokens))
       IN  /\ baseline_cost' = res[1]
           /\ baseline_prompt_cost' = res[2]
           /\ baseline_completion_cost' = res[3]
    /\ pc' = "step2"
    /\ UNCHANGED <<config, sweep, optimized, pivot_data, error>>

\* Step 2, before the loops: the three ranges and the empty result list
Step2Begin ==
    /\ pc = "step2"
    /\ \E ds \in DailyStarts, dl \in 0..MaxRangeLen :
          daily_requests_range' = arange(ds, StopFor(ds, dl, DailyStep), DailyStep)
    /\ \E ps \in PromptStarts, pl \in 0..MaxRangeLen :
          prompt_tokens_range' = arange(ps, StopFor(ps, pl, PromptStep), PromptStep)
    /\ \E cs \in CompletionStarts, cl \in 0..MaxRangeLen :
          completion_tokens_range' = arange(cs, StopFor(cs, cl, CompletionStep), CompletionStep)
    /\ cost_matrix' = <<>>
    /\ idx' = <<1, 1, 1>>
    /\ pc' = "loop"
    /\ UNCHANGED <<config, baseline, total_cost, optimized, pivot_data, error>>

\* whether the three nested for loops have a next combination
LoopHasNext ==
    /\ idx[1] <= Len(daily_requests_range)
    /\ Len(prompt_tokens_range) > 0
    /\ Len(completion_tokens_range) > 0

\* mutant: the prompt-token loop is nested innermost
NextIdx_prompt_innermost ==
    LET i == idx[1]
        j == idx[2]
        k == idx[3]
    IN  IF j < Len(prompt_tokens_range) THEN <<i, j + 1, k>>
        ELSE IF k < Len(completion_tokens_range) THEN <<i, 1, k + 1>>
        ELSE <<i + 1, 1, 1>>

\* the loop position after the body ran at <<i, j, k>>: the innermost loop advances first
NextIdx ==
    LET i == idx[1]
        j == idx[2]
        k == idx[3]
    IN  IF k < Len(completion_tokens_range) THEN <<i, j, k + 1>>
        ELSE IF j < Len(prompt_tokens_range) THEN <<i, j + 1, 1>>
        ELSE <<i + 1, 1, 1>>

\* mutant: the loop body keeps its request count in the global days
Step2Iter_overwrites_days ==
    /\ pc = "loop"
    /\ LoopHasNext
    /\ LET daily_requests == daily_requests_range[idx[1]]
           prompt_tokens == prompt_tokens_range[idx[2]]
           completion_tokens == completion_tokens_range[idx[3]]
           res == calculate_token_cost(R(daily_requests), R(prompt_tokens),
                                       R(completion_tokens))
       IN  /\ total_cost' = res[1]
           /\ days' = daily_requests
           /\ cost_matrix' = Append(cost_matrix,
                  <<daily_requests, prompt_tokens, completion_tokens, res[1]>>)
    /\ idx' = NextIdx
    /\ UNCHANGED <<prompt_cost_per_1k_tokens, completion_cost_per_1k_tokens,
                   base_daily_requests, base_prompt_tokens, base_completion_tokens,
                   baseline, daily_requests_range, prompt_tokens_range,
                   completion_tokens_range, optimized, pivot_data, error, pc>>

\* Step 2, one pass of the innermost loop body
Step2Iter ==
    /\ pc = "loop"
    /\ LoopHasNext
    /\ LET daily_requests == daily_requests_range[idx[1]]
           prompt_tokens == prompt_tokens_range[idx[2]]
           completion_tokens == completion_tokens_range[idx[3]]
           res == calculate_token_cost(R(daily_requests), R(prompt_tokens),
                                       R(completion_tokens))
       IN  /\ total_cost' = res[1]
           /\ cost_matrix' = Append(cost_matrix,
                  <<daily_requests, prompt_tokens, completion_tokens, res[1]>>)
    /\ idx' = NextIdx
    /\ UNCHANGED <<config, baseline, daily_requests_range, prompt_tokens_range,
                   completion_tokens_range, optimized, pivot_data, error, pc>>

\* Step 2, the loops are exhausted
Step2End ==
    /\ pc = "loop"
    /\ ~LoopHasNext
    /\ pc' = "step3"
    /\ UNCHANGED <<config, baseline, sweep, optimized, pivot_data, error>>

\* the factor of "optimized_prompt_tokens = base_prompt_tokens * 0.7"
ReductionFactor == Rat(7, 10)

\* mutant: the reduction is applied to the request count as well
Step3Requests_reduced == Mul(R(base_daily_requests), ReductionFactor)

\* the request count Step 3 passes to calculate_token_cost
Step3Requests == R(base_daily_requests)

\* Step 3: impact of prompt engineering
Step3 ==
    /\ pc = "step3"
    /\ LET opt_p == Mul(R(base_prompt_tokens), ReductionFactor)
           opt_c == Mul(R(base_completion_tokens), ReductionFactor)
           res == calculate_token_cost(Step3Requests, opt_p, opt_c)
           savings == Sub(baseline_cost, res[1])
       IN  /\ optimized_prompt_tokens' = opt_p
           /\ optimized_completion_tokens' = opt_c
           /\ optimized_cost' = res[1]
           /\ optimized_prompt_cost' = res[2]
           /\ optimized_completion_cost' = res[3]
           /\ IF IsZero(baseline_cost)
              THEN \* the f-string divides by baseline_cost: ZeroDivisionError, line not printed
                   /\ savings_line' = <<>>
                   /\ error' = "ZeroDivisionError"
                   /\ pc' = "failed"
              ELSE /\ savings_line' = <<Round2(savings),
                                        Round2(Mul(Div(savings, baseline_cost), R(100)))>>
                   /\ error' = error
                   /\ pc' = "step4"
    /\ UNCHANGED <<config, baseline, sweep, pivot_data>>

\* mutant: the filter compares the prompt-token column
HeatmapRows_prompt_column == SelectSeq(cost_matrix, LAMBDA row : row[2] = base_daily_requests)

\* sensitivity_df[sensitivity_df["Daily Requests"] == base_daily_requests]
HeatmapRows == SelectSeq(cost_matrix, LAMBDA row : row[1] = base_daily_requests)

\* pivot raises ValueError when two rows share (index, columns)
PivotDuplicates(rows) ==
    \E a, b \in 1..Len(rows) :
        a # b /\ rows[a][3] = rows[b][3] /\ rows[a][2] = rows[b][2]

\* Step 4: filter and pivot for the heatmap
Step4 ==
    /\ pc = "step4"
    /\ IF PivotDuplicates(HeatmapRows)
       THEN /\ pivot_data' = pivot_data
            /\ error' = "ValueError"
            /\ pc' = "failed"
       ELSE /\ pivot_data' = {<<HeatmapRows[n][3], HeatmapRows[n][2], HeatmapRows[n][4]>> :
                                  n \in 1..Len(HeatmapRows)}
            /\ error' = error
            /\ pc' = "done"
    /\ UNCHANGED <<config, baseline, sweep, optimized>>

Next == Step1 \/ Step2Begin \/ Step2Iter \/ Step2End \/ Step3 \/ Step4

Spec == Init /\ [][Next]_vars

---------------------------------------------------------------------------
(* Vocabulary of the properties *)

AfterStep1 == pc # "step1"

AfterSweep == pc \in {"step3", "step4", "done", "failed"}

AfterStep3 == pc \in {"step4", "done", "failed"}

\* days and the pricing schedule are ones computeCost accepts
ValidConfig ==
    /\ days >= 1
    /\ NonNeg(prompt_cost_per_1k_tokens)
    /\ NonNeg(completion_cost_per_1k_tokens)

\* the base usage parameters are ones computeCost accepts
ValidBase ==
    /\ base_daily_requests >= 0
    /\ base_prompt_tokens >= 0
    /\ base_completion_tokens >= 0

ValidRow(row) == row[1] >= 0 /\ row[2] >= 0 /\ row[3] >= 0

\* the notebook's own configuration
ReferenceConfig ==
    /\ prompt_cost_per_1k_tokens = Rat(3, 100)
    /\ completion_cost_per_1k_tokens = Rat(6, 100)
    /\ base_daily_requests = 1000
    /\ base_prompt_tokens = 300
    /\ base_completion_tokens = 500
    /\ days = 30

Scale(k, x) == Mul(R(k), x)

Range(seq) == {seq[n] : n \in 1..Len(seq)}

---------------------------------------------------------------------------
(* C1: for valid inputs every breakdown calculate_token_cost returned has   *)
(* total_cost = input_cost + output_cost and three non-negative components; *)
(* checked on the baseline and optimized breakdowns and on the sweep rows.  *)
C1_TotalIsSumNonNegative ==
    ValidConfig =>
        /\ (AfterStep1 /\ ValidBase) =>
              /\ baseline_cost = Add(baseline_prompt_cost, baseline_completion_cost)
              /\ NonNeg(baseline_cost)
              /\ NonNeg(baseline_prompt_cost)
              /\ NonNeg(baseline_completion_cost)
        /\ (AfterStep3 /\ ValidBase) =>
              /\ optimized_cost = Add(optimized_prompt_cost, optimized_completion_cost)
              /\ NonNeg(optimized_cost)
              /\ NonNeg(optimized_prompt_cost)
              /\ NonNeg(optimized_completion_cost)
        /\ \A n \in 1..Len(cost_matrix) :
              ValidRow(cost_matrix[n]) => NonNeg(cost_matrix[n][4])

C1_Witness ==
    /\ pc = "done"
    /\ ValidConfig /\ ValidBase
    /\ baseline_prompt_cost.n > 0 /\ baseline_completion_cost.n > 0
    /\ \E n \in 1..Len(cost_matrix) : ValidRow(cost_matrix[n]) /\ cost_matrix[n][4].n > 0

(* C2: computeCost fails with InvalidInput and returns no breakdown when r, *)
(* p, c or days is negative, days is zero or a rate is negative.  Stated    *)
(* for the baseline call of Step 1.                                         *)
C2_InvalidInputRejected ==
    (AfterStep1 /\ ~(ValidConfig /\ ValidBase)) =>
        /\ error = "InvalidInput"
        /\ baseline = <<Unset, Unset, Unset>>

(* C3: the sweep over ranges of lengths a, b, c leaves exactly a*b*c rows,  *)
(* and the row at (0-based) position i*(b*c) + j*c + k is (daily[i],        *)
(* prompt[j], completion[k], total cost of that combination).               *)
C3_SweepRowMajor ==
    AfterSweep =>
        LET a == Len(daily_requests_range)
            b == Len(prompt_tokens_range)
            c == Len(completion_tokens_range)
        IN  /\ Len(cost_matrix) = a * b * c
            /\ \A i \in 1..a, j \in 1..b, k \in 1..c :
                  cost_matrix[(i - 1) * (b * c) + (j - 1) * c + k] =
                      <<daily_requests_range[i], prompt_tokens_range[j],
                        completion_tokens_range[k],
                        calculate_token_cost(R(daily_requests_range[i]),
                                             R(prompt_tokens_range[j]),
                                             R(completion_tokens_range[k]))[1]>>

C3_Witness ==
    /\ AfterSweep
    /\ Len(daily_requests_range) = 2
    /\ Len(prompt_tokens_range) = 2
    /\ Len(completion_tokens_range) = 2
    /\ Len(cost_matrix) = 8

(* C4: when baseline_total is 0 the percentage savings is reported as       *)
(* undefined, with no uncontrolled exception and no numeric percentage;     *)
(* stated for valid inputs (zero requests or zero token counts).            *)
C4_ZeroBaselineUndefined ==
    (AfterStep3 /\ ValidConfig /\ ValidBase /\ IsZero(baseline_cost)) =>
        /\ error = "none"
        /\ savings_line = <<>>

(* C5: a sweep combination with an invalid (negative) value gets no         *)
(* ordinary (r, p, c, total_cost) row: the failure is InvalidInput; stated  *)
(* for a valid period and schedule, so that only the range value is invalid.*)
C5_InvalidRowNotAppended ==
    ValidConfig =>
        \/ error = "InvalidInput"
        \/ \A n \in 1..Len(cost_matrix) : ValidRow(cost_matrix[n])

(* C6: for valid inputs input_cost = (p*r*days/1000)*rate_in and            *)
(* output_cost = (c*r*days/1000)*rate_out; the notebook's configuration     *)
(* gives 9,000,000 and 15,000,000 tokens and costs 270, 900 and 1170.       *)
C6_CostFormula ==
    (AfterStep1 /\ ValidConfig /\ ValidBase) =>
        /\ baseline_prompt_cost =
              Rat(base_prompt_tokens * base_daily_requests * days
                      * prompt_cost_per_1k_tokens.n,
                  1000 * prompt_cost_per_1k_tokens.d)
        /\ baseline_completion_cost =
              Rat(base_completion_tokens * base_daily_requests * days
                      * completion_cost_per_1k_tokens.n,
                  1000 * completion_cost_per_1k_tokens.d)
        /\ ReferenceConfig =>
              /\ total_prompt_tokens(R(1000), R(300)) = R(9000000)
              /\ total_completion_tokens(R(1000), R(500)) = R(15000000)
              /\ baseline_prompt_cost = R(270)
              /\ baseline_completion_cost = R(900)
              /\ baseline_cost = R(1170)

C6_Witness == AfterStep1 /\ ReferenceConfig /\ baseline_cost = R(1170)

(* C7: the reduction multiplies only the two token counts by the factor     *)
(* and leaves daily requests, days and the schedule as they were, so the    *)
(* optimized cost is that of (r, 0.7 p, 0.7 c); the notebook's              *)
(* configuration gives 210 and 350 tokens, cost 819, savings 351.00, 30.00%.*)
C7_ReductionFrame ==
    /\ [](AfterStep3 =>
            /\ optimized_prompt_tokens = Rat(7 * base_prompt_tokens, 10)
            /\ optimized_completion_tokens = Rat(7 * base_completion_tokens, 10)
            /\ <<optimized_cost, optimized_prompt_cost, optimized_completion_cost>> =
                  calculate_token_cost(R(base_daily_requests), optimized_prompt_tokens,
                                       optimized_completion_tokens)
            /\ ReferenceConfig =>
                  /\ optimized_prompt_tokens = R(210)
                  /\ optimized_completion_tokens = R(350)
                  /\ optimized_cost = R(819)
                  /\ savings_line = <<35100, 3000>>)
    /\ [][pc = "step3" => config' = config /\ baseline' = baseline]_vars

C7_Witness == pc = "done" /\ ReferenceConfig /\ savings_line = <<35100, 3000>>

(* C8: computeCost is linear in each single parameter: scaling r by k       *)
(* scales all three costs by k, scaling p scales input_cost only, scaling c *)
(* scales output_cost only; r = 0 gives zero cost.                          *)
C8_Linear ==
    /\ (AfterStep1 /\ ValidConfig /\ ValidBase) =>
          \A k \in 0..MaxScale :
              LET r == R(base_daily_requests)
                  p == R(base_prompt_tokens)
                  c == R(base_completion_tokens)
              IN  /\ calculate_token_cost(Scale(k, r), p, c) =
                        <<Scale(k, baseline_cost), Scale(k, baseline_prompt_cost),
                          Scale(k, baseline_completion_cost)>>
                  /\ calculate_token_cost(r, Scale(k, p), c)[2] =
                        Scale(k, baseline_prompt_cost)
                  /\ calculate_token_cost(r, Scale(k, p), c)[3] = baseline_completion_cost
                  /\ calculate_token_cost(r, p, Scale(k, c))[3] =
                        Scale(k, baseline_completion_cost)
                  /\ calculate_token_cost(r, p, Scale(k, c))[2] = baseline_prompt_cost
    /\ (AfterStep3 /\ ValidConfig /\ ValidBase) =>
          /\ optimized_prompt_cost = Mul(ReductionFactor, baseline_prompt_cost)
          /\ optimized_completion_cost = Mul(ReductionFactor, baseline_completion_cost)
    /\ ValidConfig =>
          \A n \in 1..Len(cost_matrix) :
              (ValidRow(cost_matrix[n]) /\ cost_matrix[n][1] = 0) => IsZero(cost_matrix[n][4])

C8_Witness ==
    /\ AfterStep3 /\ ValidConfig /\ ValidBase
    /\ baseline_prompt_cost.n > 0 /\ baseline_completion_cost.n > 0
    /\ optimized_prompt_cost # baseline_prompt_cost

(* C9: no step changes the period length, the rates or the baseline cost    *)
(* already computed, so a call repeated later with the same (r, p, c)       *)
(* returns what the earlier call returned.                                  *)
C9_NoHiddenState ==
    /\ [](/\ AfterStep1 =>
                baseline = calculate_token_cost(R(base_daily_requests),
                                                R(base_prompt_tokens),
                                                R(base_completion_tokens))
          /\ \A n \in 1..Len(cost_matrix) :
                cost_matrix[n][4] =
                    calculate_token_cost(R(cost_matrix[n][1]), R(cost_matrix[n][2]),
                                         R(cost_matrix[n][3]))[1]
          /\ AfterStep3 =>
                optimized_cost =
                    calculate_token_cost(R(base_daily_requests), optimized_prompt_tokens,
                                         optimized_completion_tokens)[1])
    /\ [][/\ days' = days
          /\ prompt_cost_per_1k_tokens' = prompt_cost_per_1k_tokens
          /\ completion_cost_per_1k_tokens' = completion_cost_per_1k_tokens
          /\ AfterStep1 => baseline' = baseline]_vars

C9_Witness ==
    /\ pc = "done"
    /\ \E n \in 1..Len(cost_matrix) :
          /\ cost_matrix[n][1] = base_daily_requests
          /\ cost_matrix[n][2] = base_prompt_tokens
          /\ cost_matrix[n][3] = base_completion_tokens
          /\ cost_matrix[n][4] = baseline_cost
          /\ baseline_cost.n > 0

(* C10: the rows selected for the heatmap are |prompt range| * |completion  *)
(* range| many when the fixed daily-request value is in the daily range and *)
(* none otherwise, and no two of them share (prompt, completion), so each   *)
(* heatmap cell holds exactly one total cost.                               *)
C10_HeatmapCells ==
    pc = "done" =>
        LET b == Len(prompt_tokens_range)
            c == Len(completion_tokens_range)
            expected == IF base_daily_requests \in Range(daily_requests_range)
                        THEN b * c ELSE 0
        IN  /\ Len(HeatmapRows) = expected
            /\ \A m, n \in 1..Len(HeatmapRows) :
                  (HeatmapRows[m][2] = HeatmapRows[n][2]
                      /\ HeatmapRows[m][3] = HeatmapRows[n][3]) => m = n
            /\ Cardinality(pivot_data) = expected
            /\ \A x, y \in pivot_data : (x[1] = y[1] /\ x[2] = y[2]) => x = y
            /\ error = "none"

C10_Witness ==
    /\ pc = "done"
    /\ base_daily_requests \in Range(daily_requests_range)
    /\ Cardinality(pivot_data) = 4

====
